---- MODULE Spec2Model ----
(***************************************************************************)
(* Shadow-workspace code execution of cursor-mcp.                          *)
(*                                                                         *)
(* The model follows src/src/shadow/CursorShadowWorkspaceHandler.ts: one   *)
(* handler object (workspaceBaseDir, workspaceCount), a file system of     *)
(* directories and files, the operating system's process table, the host   *)
(* process's SIGINT/SIGTERM listeners, and for every runCode call the      *)
(* position of the async function between two awaits.                      *)
(*                                                                         *)
(* Paths are sequences of segments below the parent directory of the base  *)
(* directory. File names and file contents are strings; what the code      *)
(* computes from a string (extname, trim, includes, JSON.parse, a regexp   *)
(* match) is tabulated for the strings that occur in the model.            *)
(***************************************************************************)
EXTENDS Integers, Sequences, FiniteSets, TLC

VARIABLES
    workspaceCount,  \* this.workspaceCount
    dirs,            \* directories that exist on disk
    files,           \* files that exist on disk, and their content
    rc,              \* the runCode calls: options, locals, position
    procs,           \* live operating-system processes started by executeCommand
    listeners,       \* cleanup closures registered for SIGINT and SIGTERM
    hostAlive,       \* the host (node) process is alive
    written,         \* history: <<call, path>> of every fs.writeFile that succeeded
    executed,        \* history: commands handed to exec()
    signalled        \* history: executeCommand calls whose cleanup closure has run

vars == <<workspaceCount, dirs, files, rc, procs, listeners, hostAlive,
          written, executed, signalled>>

----------------------------------------------------------------------------
\* Bounds

\* the number of runCode calls in one host process lifetime
MaxCalls == 2

Calls == 1..MaxCalls

\* undefined / empty string (both falsy in the conditions of runCode)
None == <<>>

NoText == ""

----------------------------------------------------------------------------
\* Paths

RECURSIVE NormalizeFrom(_, _)
NormalizeFrom(done, rest) ==
    IF rest = <<>> THEN done
    ELSE LET s == Head(rest) IN
         IF s = ".."
         THEN NormalizeFrom(IF done = <<>> THEN <<>>
                            ELSE SubSeq(done, 1, Len(done) - 1), Tail(rest))
         ELSE IF s = "."
         THEN NormalizeFrom(done, Tail(rest))
         ELSE NormalizeFrom(Append(done, s), Tail(rest))

\* path.join(a, b): concatenation, then normalisation of "." and ".."
PathJoin(a, b) == NormalizeFrom(<<>>, a \o b)

\* path.dirname
Dirname(p) == IF p = <<>> THEN <<>> ELSE SubSeq(p, 1, Len(p) - 1)

\* path.basename
Basename(p) == IF p = <<>> THEN "" ELSE p[Len(p)]

IsPrefix(a, p) == Len(a) <= Len(p) /\ SubSeq(p, 1, Len(a)) = a

\* p lies strictly below directory d
Below(d, p) == IsPrefix(d, p) /\ Len(p) > Len(d)

\* the path of p relative to d, for p below d
RelTo(d, p) == SubSeq(p, Len(d) + 1, Len(p))

\* path.extname of the last segment
ExtName(p) ==
    LET n == Basename(p) IN
    CASE n \in {"a.py", "main.py", "evil.py", "util.py", ".hidden.py",
                "exit code 1.py", "file.py"} -> ".py"
      [] n \in {"server.js", "next.config.js", "cli.js"} -> ".js"
      [] n = "package.json" -> ".json"
      [] n \in {"requirements.txt", "notes.txt", "file.txt"} -> ".txt"
      [] n = "go.mod" -> ".mod"
      [] n = "yarn.lock" -> ".lock"
      [] n = "main.go" -> ".go"
      [] n \in {"a.c", "bad.c", "exit code 1.c"} -> ".c"
      [] n \in {"a.c.exe", "bad.c.exe", "exit code 1.c.exe"} -> ".exe"
      [] n = "app.ts" -> ".ts"
      [] n = "A.PY" -> ".PY"
      [] OTHER -> ""

\* String.prototype.toLowerCase on an extension
ToLowerCase(e) == IF e = ".PY" THEN ".py" ELSE e

\* this.workspaceBaseDir
workspaceBaseDir == <<"shadow-workspaces">>

\* `workspace_${n}`
WorkspaceId(n) == "workspace_" \o ToString(n)

WorkspacePath(n) == PathJoin(workspaceBaseDir, <<WorkspaceId(n)>>)

----------------------------------------------------------------------------
\* File system

Exists(fsDirs, fsFiles, p) == p \in fsDirs \/ p \in DOMAIN fsFiles

\* fs.writeFile(p, ...) succeeds when the parent directory exists and p is
\* not itself a directory; otherwise it rejects (ENOENT, EISDIR)
CanWrite(fsDirs, p) == p # <<>> /\ Dirname(p) \in fsDirs /\ p \notin fsDirs

WriteFile(fsFiles, p, content) ==
    [q \in (DOMAIN fsFiles) \cup {p} |-> IF q = p THEN content ELSE fsFiles[q]]

\* fs.rm(p, {recursive, force}) when it succeeds
RmDirs(fsDirs, p) == {d \in fsDirs : ~IsPrefix(p, d)}

RmFiles(fsFiles, p) ==
    [q \in {f \in DOMAIN fsFiles : ~IsPrefix(p, f)} |-> fsFiles[q]]

----------------------------------------------------------------------------
\* File contents that occur in the model

PyHi == "print('hi')"

PyMainFn == "def main(): pass"

PyStderr == "import sys; sys.stderr.write('warn')"

PyRaise == "raise Exception('boom')"

PyExitMsg == "import sys; sys.exit('exit code 1')"

PyLoop == "while True: pass"

PyExit3 == "import sys; sys.exit(3)"

PyFloodOut == "while True: print('x' * 1024)"

PyFloodBoth == "write 10 MB to stdout and 10 MB to stderr"

CLoop == "int main(void){for(;;);}"

CBad == "int main(void){"

\* the binary an earlier compile of bad.c left next to it
StaleBinary == "binary of int main(void){return 0;}"

TsLog == "console.log('hi')"

JsThrow == "throw new Error('boom')"

PkgMain == "{\"main\": \"server.js\"}"

PkgStartQuoted == "{\"scripts\": {\"start\": \"node 'server.js'\"}}"

PkgStartUnquoted == "{\"scripts\": {\"start\": \"node server.js\"}}"

ReqsTxt == "flask"

PkgBuild == "{\"scripts\": {\"build\": \"tsc\"}}"

YarnLock == "# yarn lockfile v1"

\* JSON.stringify(packageJson, null, 2) of setupNodeProject
SetupPackageJson == "{\"name\": \"shadow-workspace\", \"version\": \"1.0.0\", \"type\": \"module\", \"dependencies\": {}}"

\* JSON.stringify(babelConfig, null, 2) of setupNodeProject
SetupBabelRc == "{\"presets\": [\"@babel/preset-env\", \"@babel/preset-react\", \"@babel/preset-typescript\"]}"

\* the script of a package that npm install has linked into node_modules/.bin
JsExports == "module.exports = run"

\* content.includes(m) for one of the twelve entry markers of the content scan
HasEntryMarker(content) == content \in {PyMainFn, JsExports}

\* JSON.parse(content) does not throw
JsonParses(content) ==
    content \in {PkgMain, PkgStartQuoted, PkgStartUnquoted, PkgBuild, SetupPackageJson,
                 SetupBabelRc}

\* [main, module, source, browser,
\*  scripts.start.match(/["']([^"']+)["']/)[1], scripts.dev.match(...)[1]].filter(Boolean)
\* of the parsed manifest: the regexp takes a token only when the script quotes it
PossibleEntries(content) ==
    CASE content = PkgMain -> << <<"server.js">> >>
      [] content = PkgStartQuoted -> << <<"server.js">> >>
      [] OTHER -> << >>

\* the names of files and directories whose first character is a dot
IsDotName(name) == name \in {".hidden.py", ".babelrc", ".git", ".bin"}

\* file.startsWith('.') on an entry of the recursive listing, which is the
\* path relative to the workspace: only the first segment is looked at
StartsWithDot(rel) == rel # <<>> /\ IsDotName(rel[1])

----------------------------------------------------------------------------
\* getRunCommand: the extension table. A command is the record of what the
\* shell is asked to do: the tool, the file, and for the compiled languages
\* the binary that "tool file -o binary && binary" builds and then starts.

Interpreter(extension) ==
    CASE extension \in {".js", ".mjs", ".cjs"} -> "node"
      [] extension = ".ts" -> "ts-node"
      [] extension = ".jsx" -> "node -r @babel/register"
      [] extension = ".tsx" -> "ts-node --compiler-options"
      [] extension = ".py" -> "python"
      [] extension = ".py3" -> "python3"
      [] extension = ".pyw" -> "pythonw"
      [] extension \in {".sh", ".bash"} -> "bash"
      [] extension = ".zsh" -> "zsh"
      [] extension \in {".bat", ".cmd"} -> "direct"
      [] extension = ".ps1" -> "powershell"
      [] extension = ".rb" -> "ruby"
      [] extension = ".php" -> "php"
      [] extension = ".pl" -> "perl"
      [] extension = ".r" -> "Rscript"
      [] extension = ".go" -> "go run"
      [] extension = ".java" -> "java"
      [] extension = ".groovy" -> "groovy"
      [] extension = ".scala" -> "scala"
      [] extension \in {".kt", ".kts"} -> "kotlin"
      [] extension \in {".cpp", ".cc"} -> "g++"
      [] extension = ".c" -> "gcc"
      [] extension = ".rs" -> "rustc"
      [] extension = ".fish" -> "fish"
      [] extension = ".tcsh" -> "tcsh"
      [] extension = ".ksh" -> "ksh"
      [] OTHER -> "unsupported"

IsCompiled(extension) == extension \in {".cpp", ".cc", ".c", ".rs"}

\* null, as a command
NoCommand == [kind |-> "none", tool |-> "unsupported", file |-> <<>>, compound |-> FALSE]

\* commands[extension] || null
getRunCommand(extension, filePath) ==
    IF Interpreter(extension) = "unsupported" THEN NoCommand
    ELSE [kind |-> "run", tool |-> Interpreter(extension), file |-> filePath,
          compound |-> IsCompiled(extension)]

\* `"${filePath}.exe"`, the binary of the compiled languages
BinaryPath(filePath) == Append(Dirname(filePath), Basename(filePath) \o ".exe")

\* `cd "${workspacePath}" && npm install` of setupNodeProject
NpmInstallCommand(workspacePath) ==
    [kind |-> "install", tool |-> "npm install", file |-> workspacePath,
     compound |-> TRUE]

----------------------------------------------------------------------------
\* detectEntryPoint

\* const frameworkConfigs
frameworkConfigs == <<
    [file |-> <<"next.config.js">>, entry |-> <<"pages", "index">>],
    [file |-> <<"vite.config.js">>, entry |-> <<"src", "main">>],
    [file |-> <<"angular.json">>, entry |-> <<"src", "main.ts">>],
    [file |-> <<"cargo.toml">>, entry |-> <<"src", "main.rs">>],
    [file |-> <<"go.mod">>, entry |-> <<"main.go">>],
    [file |-> <<"pom.xml">>, entry |-> <<"src", "main", "java", "Main.java">>],
    [file |-> <<"build.gradle">>, entry |-> <<"src", "main", "java", "Main.java">>],
    [file |-> <<"requirements.txt">>, entry |-> <<"main.py">>],
    [file |-> <<"Pipfile">>, entry |-> <<"main.py">>],
    [file |-> <<"pyproject.toml">>, entry |-> <<"main.py">>] >>

\* const entryPointPatterns (the file of each row)
entryPointPatterns == <<
    <<"pages", "_app.tsx">>, <<"pages", "_app.jsx">>, <<"pages", "index.tsx">>,
    <<"pages", "index.jsx">>, <<"src", "pages", "_app.tsx">>,
    <<"src", "pages", "index.tsx">>, <<"src", "App.tsx">>, <<"src", "main.tsx">>,
    <<"src", "main.jsx">>, <<"src", "app.vue">>, <<"src", "main.ts">>,
    <<"src", "index.ts">>, <<"src", "index.js">>, <<"src", "main.ts">>,
    <<"src", "main.js">>, <<"src", "app.ts">>, <<"src", "app.js">>,
    <<"src", "server.ts">>, <<"src", "server.js">>, <<"index.ts">>, <<"index.js">>,
    <<"main.ts">>, <<"main.js">>, <<"app.ts">>, <<"app.js">>, <<"server.ts">>,
    <<"server.js">>,
    <<"src", "__main__.py">>, <<"src", "main.py">>, <<"src", "app.py">>,
    <<"__main__.py">>, <<"main.py">>, <<"app.py">>, <<"run.py">>, <<"wsgi.py">>,
    <<"asgi.py">>, <<"manage.py">>,
    <<"src", "main.rs">>, <<"src", "lib.rs">>, <<"main.rs">>,
    <<"cmd", "main.go">>, <<"main.go">>, <<"app.go">>,
    <<"src", "main", "java", "Main.java">>, <<"src", "main", "kotlin", "Main.kt">>,
    <<"src", "main", "scala", "Main.scala">>, <<"Main.java">>, <<"App.java">>,
    <<"Program.cs">>, <<"Startup.cs">>, <<"src", "Program.cs">> >>

\* the index at which a for ... of loop returns: the least index whose
\* iteration hits, 0 when the loop runs to its end
FirstIndex(hits) ==
    IF \E i \in 1..Len(hits) : hits[i]
    THEN CHOOSE i \in 1..Len(hits) : hits[i] /\ \A j \in 1..(i - 1) : ~hits[j]
    ELSE 0

\* the loop over frameworkConfigs ending at the first row whose config file
\* can be accessed, whether or not its entry file is there
FrameworkScanFirstConfig(fsDirs, fsFiles, workspacePath) ==
    LET Hit(row) == Exists(fsDirs, fsFiles, PathJoin(workspacePath, row.file))
        i == FirstIndex([k \in 1..Len(frameworkConfigs) |-> Hit(frameworkConfigs[k])])
    IN  IF i = 0 \/ ~Exists(fsDirs, fsFiles,
                            PathJoin(workspacePath, frameworkConfigs[i].entry))
        THEN None
        ELSE PathJoin(workspacePath, frameworkConfigs[i].entry)

\* the loop over frameworkConfigs: the entry of the first row whose config
\* file and entry file can both be accessed
FrameworkScan(fsDirs, fsFiles, workspacePath) ==
    LET Hit(row) == /\ Exists(fsDirs, fsFiles, PathJoin(workspacePath, row.file))
                    /\ Exists(fsDirs, fsFiles, PathJoin(workspacePath, row.entry))
        i == FirstIndex([k \in 1..Len(frameworkConfigs) |-> Hit(frameworkConfigs[k])])
    IN  IF i = 0 THEN None ELSE PathJoin(workspacePath, frameworkConfigs[i].entry)

\* the package.json block: the first of possibleEntries that can be accessed;
\* a manifest that does not parse is logged and skipped
ManifestScan(fsDirs, fsFiles, workspacePath) ==
    LET packageJsonPath == PathJoin(workspacePath, <<"package.json">>)
    IN  IF packageJsonPath \notin DOMAIN fsFiles \/ ~JsonParses(fsFiles[packageJsonPath])
        THEN None
        ELSE LET entries == PossibleEntries(fsFiles[packageJsonPath])
                 Hit(entry) == Exists(fsDirs, fsFiles, PathJoin(workspacePath, entry))
                 i == FirstIndex([k \in 1..Len(entries) |-> Hit(entries[k])])
             IN  IF i = 0 THEN None ELSE PathJoin(workspacePath, entries[i])

\* the loop over entryPointPatterns: the first pattern that can be accessed
PatternScan(fsDirs, fsFiles, workspacePath) ==
    LET Hit(file) == Exists(fsDirs, fsFiles, PathJoin(workspacePath, file))
        i == FirstIndex([k \in 1..Len(entryPointPatterns) |-> Hit(entryPointPatterns[k])])
    IN  IF i = 0 THEN None ELSE PathJoin(workspacePath, entryPointPatterns[i])

\* the content scan: the files of fs.readdir(workspacePath, {recursive: true})
\* that are not skipped and hold an entry marker. The listing gives the
\* entries of the workspace root first, in the order of the directory, which
\* the operating system decides; then those of the directories below it.
ContentScan(fsFiles, workspacePath) ==
    LET cand == {f \in DOMAIN fsFiles :
                    /\ Below(workspacePath, f)
                    /\ ~StartsWithDot(RelTo(workspacePath, f))
                    /\ HasEntryMarker(fsFiles[f])}
        top == {f \in cand : Len(f) = Len(workspacePath) + 1}
    IN  IF top # {} THEN top ELSE cand

\* detectEntryPoint with the package.json block moved in front of the loop
\* over frameworkConfigs
detectEntryPointManifestFirst(fsDirs, fsFiles, workspacePath) ==
    LET fw == FrameworkScan(fsDirs, fsFiles, workspacePath)
        mf == ManifestScan(fsDirs, fsFiles, workspacePath)
        pt == PatternScan(fsDirs, fsFiles, workspacePath)
        cs == ContentScan(fsFiles, workspacePath)
    IN  IF mf # None THEN {[path |-> mf, tier |-> "manifest"]}
        ELSE IF fw # None THEN {[path |-> fw, tier |-> "framework"]}
        ELSE IF pt # None THEN {[path |-> pt, tier |-> "pattern"]}
        ELSE IF cs # {} THEN {[path |-> f, tier |-> "content"] : f \in cs}
        ELSE {[path |-> None, tier |-> "none"]}

\* What detectEntryPoint can return, with the tier that gave it: one value
\* for the three table tiers, any first marker file for the content scan,
\* and null when no tier has a hit.
detectEntryPoint(fsDirs, fsFiles, workspacePath) ==
    LET fw == FrameworkScan(fsDirs, fsFiles, workspacePath)
        mf == ManifestScan(fsDirs, fsFiles, workspacePath)
        pt == PatternScan(fsDirs, fsFiles, workspacePath)
        cs == ContentScan(fsFiles, workspacePath)
    IN  IF fw # None THEN {[path |-> fw, tier |-> "framework"]}
        ELSE IF mf # None THEN {[path |-> mf, tier |-> "manifest"]}
        ELSE IF pt # None THEN {[path |-> pt, tier |-> "pattern"]}
        ELSE IF cs # {} THEN {[path |-> f, tier |-> "content"] : f \in cs}
        ELSE {[path |-> None, tier |-> "none"]}

----------------------------------------------------------------------------
\* Child processes: what a started command does

\* what the child loads when it starts: the content of the file it is given
\* (NoText when the file does not exist)
LoadProgram(fsFiles, command) ==
    IF command.kind = "run" /\ command.file \in DOMAIN fsFiles
    THEN fsFiles[command.file] ELSE NoText

\* the ways the command can run to its end: exit code, stdout, stderr
ExitOutcomes(command, prog) ==
    IF command.kind \in {"install", "setup"}
    THEN {[code |-> 0, stdout |-> "added 9 packages", stderr |-> ""],
          [code |-> 1, stdout |-> "", stderr |-> "npm ERR!"]}
    ELSE CASE prog = NoText -> {[code |-> 2, stdout |-> "", stderr |-> "No such file"]}
           [] prog = PyHi -> {[code |-> 0, stdout |-> "hi\n", stderr |-> ""]}
           [] prog = TsLog -> {[code |-> 0, stdout |-> "hi\n", stderr |-> ""]}
           [] prog \in {PyMainFn, JsExports} ->
                  {[code |-> 0, stdout |-> "", stderr |-> ""]}
           [] prog = PyStderr -> {[code |-> 0, stdout |-> "", stderr |-> "warn"]}
           [] prog \in {PyRaise, JsThrow} ->
                  {[code |-> 1, stdout |-> "", stderr |-> "Exception: boom"]}
           [] prog = PyExitMsg -> {[code |-> 1, stdout |-> "", stderr |-> "exit code 1"]}
           [] prog = PyExit3 -> {[code |-> 3, stdout |-> "", stderr |-> ""]}
           [] prog \in {PyLoop, CLoop, PyFloodOut} -> {}
           [] prog = PyFloodBoth -> {[code |-> 0, stdout |-> "xxx", stderr |-> "yyy"]}
           [] OTHER -> {[code |-> 1, stdout |-> "", stderr |-> "SyntaxError"]}

\* the compiler accepts the source (a file that does not exist is an error)
Compiles(prog) == prog \notin {CBad, NoText}

\* what the compiler writes to `"${filePath}.exe"`
BinaryOf(prog) == "binary of " \o prog

\* the compiler has rejected the source: messages on stderr, exit code 1
CompileErrors == {[code |-> 1, stdout |-> "", stderr |-> "error: expected declaration"]}

\* "compile ; binary": the second command started whatever the first did
AndThenAlways(firstSucceeded) == TRUE

\* "compile && binary": the shell starts the second command only when the
\* first has exited with code 0
AndThen(firstSucceeded) == firstSucceeded

\* the command is the compile-then-execute pipeline of getRunCommand
IsPipeline(command) == command.kind = "run" /\ command.compound

\* maxBuffer of the options given to exec: 10 * 1024 * 1024 bytes, counted
\* here in units of 5 MB
MaxBuffer == 2

\* what the command writes to stdout and to stderr while it runs, in units
\* of 5 MB (output below one unit counts as 0)
Volume(command, prog) ==
    CASE command.kind = "run" /\ prog = PyFloodOut -> [out |-> 3, err |-> 0]
      [] command.kind = "run" /\ prog = PyFloodBoth -> [out |-> 2, err |-> 2]
      [] OTHER -> [out |-> 0, err |-> 0]

\* exec counts stdout and stderr separately against maxBuffer
ExceedsMaxBuffer(volume) == volume.out > MaxBuffer \/ volume.err > MaxBuffer

\* exec with nothing cut off at maxBuffer
BufferedUnbounded(volume) == volume

\* what exec holds in memory of each stream: the stream is cut off at
\* maxBuffer
Buffered(volume) ==
    [out |-> IF volume.out > MaxBuffer THEN MaxBuffer ELSE volume.out,
     err |-> IF volume.err > MaxBuffer THEN MaxBuffer ELSE volume.err]

\* the command can still be running when the timeout of exec expires
CanOutlastTimeout(command, prog) ==
    command.kind \in {"install", "setup"} \/ prog \in {PyLoop, CLoop}

\* The shell that exec starts runs the command in a process of its own,
\* unless it replaces itself by the command: "a && b" is always run by a
\* shell that stays, a single command by either, depending on the shell.
ShellForks(command) == IF command.compound THEN {TRUE} ELSE BOOLEAN

\* the process group of the host process
HostGroup == <<0, "host", "node">>

\* the process id of a child: the call, the command kind, shell or command
Pid(c, kind, role) == <<c, kind, role>>

\* the options given to exec: maxBuffer, timeout, env; detached is not set
ExecDetached == FALSE

\* the process group a spawned child is put in
ChildGroup(pid) == IF ExecDetached THEN pid ELSE HostGroup

\* the processes of executeCommand's child: the shell, and the command when
\* the shell forks it (it inherits the shell's group)
ChildProcs(c, command, forks) ==
    {[call |-> c, kind |-> command.kind, role |-> "shell",
      pgid |-> ChildGroup(Pid(c, command.kind, "shell"))]}
    \cup (IF forks
          THEN {[call |-> c, kind |-> command.kind, role |-> "command",
                 pgid |-> ChildGroup(Pid(c, command.kind, "shell"))]}
          ELSE {})

\* process.kill(-pid): the members of the process group whose id is pid;
\* when there are none the call throws ESRCH, which cleanup() logs
KillGroup(ps, pid) == {q \in ps : q.pgid # pid}

\* childProcess.kill(killSignal) of exec's timeout: the child itself only
KillChild(ps, c, kind) == {q \in ps : ~(q.call = c /\ q.kind = kind /\ q.role = "shell")}

\* the child and what it started have ended by themselves
ReapChild(ps, c, kind) == {q \in ps : ~(q.call = c /\ q.kind = kind)}

\* error.message of exec is "Command failed: " + command + "\n" + stderr, and
\* the command holds the path of the file: the text 'exit code 1' can come
\* from a segment of the path or from stderr
MessageIncludesExitCode1(command, stderr) ==
    \/ stderr = "exit code 1"
    \/ \E i \in 1..Len(command.file) :
           command.file[i] \in {"exit code 1.py", "exit code 1.c"}

\* String.prototype.trim
Trim(text) == IF text \in {" ", "\n", " \n"} THEN "" ELSE text

\* the callback of exec: reject(error) unless the message holds "exit code 1"
Rejects(isError, command, stderr) ==
    isError /\ ~MessageIncludesExitCode1(command, stderr)

\* const success = !stderr || stderr.trim().length === 0
Success(stderr) == stderr = "" \/ Trim(stderr) = ""

----------------------------------------------------------------------------
\* Requests (ShadowWorkspaceOptions)

Options(code, filename, filepath, dependencies, entryPoint) ==
    [code |-> code, filename |-> filename, filepath |-> filepath,
     dependencies |-> dependencies, entryPoint |-> entryPoint]

Dep(code, filename) == [code |-> code, filename |-> filename]

NoOptions == Options(NoText, None, None, <<>>, None)

ReqHi == Options(PyHi, <<"a.py">>, None, <<>>, None)

ReqBoth == Options(PyRaise, <<"a.py">>, <<"a.py">>, <<>>, None)

ReqPath == Options(NoText, None, <<"ext", "a.c">>, <<>>, None)

ReqTraverse ==
    Options(PyStderr, <<"..", "workspace_1", "a.py">>, None,
            <<Dep(PyRaise, <<"..", "..", "evil.py">>)>>, None)

ReqEntry ==
    Options(PyMainFn, <<"main.py">>, None,
            <<Dep(PyExitMsg, <<"util.py">>)>>, <<"util.py">>)

ReqDetect ==
    Options(PyHi, <<"util.py">>, None, <<Dep(PyLoop, <<"main.py">>)>>, None)

ReqTs ==
    Options(TsLog, <<"app.ts">>, None,
            <<Dep(PkgStartUnquoted, <<"package.json">>)>>, None)

ReqUnsupported == Options("hello", <<"notes.txt">>, None, <<>>, None)

ReqNeitherBadDep ==
    Options(NoText, None, None, <<Dep(PyHi, <<"pages", "x.py">>)>>, None)

ReqExitName == Options(PyExit3, <<"exit code 1.py">>, None, <<>>, None)

\* filepath names a C source that does not compile, with a binary of an
\* earlier compile next to it
ReqBadC == Options(NoText, None, <<"ext", "bad.c">>, <<>>, None)

ReqBadCNamed == Options(CBad, <<"exit code 1.c">>, None, <<>>, None)

ReqFloodOut == Options(PyFloodOut, <<"a.py">>, None, <<>>, None)

ReqFloodBoth == Options(PyFloodBoth, <<"a.py">>, None, <<>>, None)

\* the request brings its own package.json as the main file (and an earlier
\* draft of it as a dependency of the same name) and runs app.ts
ReqOwnManifest ==
    Options(PkgMain, <<"package.json">>, None,
            <<Dep(PkgStartQuoted, <<"package.json">>), Dep(TsLog, <<"app.ts">>)>>,
            <<"app.ts">>)

\* a dependency has the name of the main file
ReqSameName == Options(PyHi, <<"a.py">>, None, <<Dep(PyRaise, <<"a.py">>)>>, None)

\* filepath names the project directory ext/proj, not a file
ProjectDir == <<"ext", "proj">>

ReqDir == Options(NoText, None, ProjectDir, <<>>, None)

\* the requests the callers of runCode make in the model
Requests ==
    {ReqHi, NoOptions, ReqBoth, ReqPath, ReqTraverse, ReqEntry, ReqDetect, ReqTs,
     ReqUnsupported, ReqNeitherBadDep, ReqDir, ReqExitName,
     ReqOwnManifest, ReqSameName, ReqFloodOut, ReqFloodBoth, ReqBadC,
     ReqBadCNamed}

----------------------------------------------------------------------------
\* runCode

NoResult ==
    [kind |-> "none", output |-> "", error |-> "", success |-> FALSE,
     entryPoint |-> None, reason |-> "", stage |-> ""]

\* return { output, error, success, entryPoint }
Returned(stdout, stderr, fileToRun) ==
    [kind |-> "return", output |-> stdout, error |-> stderr,
     success |-> Success(stderr), entryPoint |-> fileToRun, reason |-> "", stage |-> ""]

\* throw error (the catch block of runCode logs it and throws it again)
Thrown(reason, stage) ==
    [kind |-> "throw", output |-> "", error |-> "", success |-> FALSE,
     entryPoint |-> None, reason |-> reason, stage |-> stage]

NotDetected == [path |-> None, tier |-> "not consulted"]

\* history: what the main file held when the call handed its first command
\* to exec (mainSeen), and when it handed its run command to exec (mainAtRun);
\* whether the directory createWorkspaceDirectory returned was empty
\* (foundEmpty); how much of the workspace was there when cleanup called fs.rm
\* (rmFound); how much output exec held in memory of the last command
\* (buffered); where the shell is in "compile && binary" (phase), and
\* whether it has started the binary (ranBinary); the position in the pass
\* of detectAndRunSetupCommands (setupIdx), its commandsRun set, and the
\* setup commands it has handed to exec, in order (setupLog)
NotSeen == "no command yet"

Missing == "no such file"

ContentAt(fsFiles, p) == IF p \in DOMAIN fsFiles THEN fsFiles[p] ELSE Missing

\* nothing exists below directory d
IsEmptyDir(fsDirs, fsFiles, d) ==
    /\ \A q \in fsDirs : ~Below(d, q)
    /\ \A f \in DOMAIN fsFiles : ~Below(d, f)

IdleCall ==
    [pc |-> "idle", options |-> NoOptions, workspacePath |-> None, depIdx |-> 0,
     mainFilePath |-> None, fileToRun |-> None, detected |-> NotDetected,
     command |-> NoCommand, child |-> "none", prog |-> NoText,
     exit |-> "none", pending |-> NoResult, primary |-> NoResult,
     rmThrew |-> FALSE, mainSeen |-> NotSeen, mainAtRun |-> NotSeen,
     foundEmpty |-> TRUE, rmFound |-> NotSeen,
     buffered |-> [out |-> 0, err |-> 0], phase |-> "none",
     ranBinary |-> FALSE, setupIdx |-> 0, commandsRun |-> {}, setupLog |-> <<>>]

\* the counter read without the increment
NextWorkspaceCountStuck(count) == count

\* ++this.workspaceCount
NextWorkspaceCount(count) == count + 1

\* options.code && options.filename
HasInline(options) == options.code # NoText /\ options.filename # None

\* the filepath branch taken without looking at options.filepath
HasFilepathUnchecked(options) == TRUE

\* options.filepath
HasFilepath(options) == options.filepath # None

\* options.entryPoint ignored: detection always runs
UsesExplicitEntryNever(options) == FALSE

\* if (options.entryPoint)
UsesExplicitEntry(options) == options.entryPoint # None

\* the detected entry taken without the fallback to the main file
EntryWithoutFallback(detectedEntry, mainFilePath) == detectedEntry

\* the main file taken whatever the detection gave
EntryAlwaysMain(detectedEntry, mainFilePath) == mainFilePath

\* detectedEntry || mainFilePath
EntryOrMain(detectedEntry, mainFilePath) ==
    IF detectedEntry # None THEN detectedEntry ELSE mainFilePath

\* setupNodeProject called for every entry file
NeedsNodeSetupAlways(extension) == TRUE

\* ['.jsx', '.tsx', '.ts'].includes(extension)
NeedsNodeSetup(extension) == extension \in {".jsx", ".tsx", ".ts"}

\* the finally block: cleanup is called when workspacePath is set
FinallyCleans(workspacePath) == workspacePath # None

\* cleanup(workspacePath): the whole path joined to the base directory again
CleanupPathNotBasename(workspacePath) == PathJoin(workspaceBaseDir, workspacePath)

\* cleanup(path.basename(workspacePath)) removes this directory
CleanupPath(workspacePath) == PathJoin(workspaceBaseDir, <<Basename(workspacePath)>>)

\* the error of cleanup thrown on from the finally block
AfterCleanupRethrown(pending, rmOk) ==
    IF rmOk THEN pending ELSE Thrown("cleanup", "finally")

\* what runCode settles with after the finally block: the catch around the
\* call of cleanup only logs cleanupError
AfterCleanup(pending, rmOk) == pending

\* fs.rm(path, {recursive: true, force: true}) without force: a missing path
\* is an error (ENOENT) too
RmOutcomesNoForce(fsDirs, fsFiles, target) == BOOLEAN

\* fs.rm(path, {recursive: true, force: true}) succeeds (TRUE) or rejects
\* (FALSE: EBUSY, EPERM, EACCES on something below path); with force a path
\* that does not exist is not an error
RmOutcomes(fsDirs, fsFiles, target) ==
    IF Exists(fsDirs, fsFiles, target) THEN BOOLEAN ELSE {TRUE}

\* what cleanup finds of the workspace of call c: "nothing" when the
\* directory does not exist, "all" when it and every file the call wrote
\* below it exist, "some" otherwise
Found(fsDirs, fsFiles, history, c, target) ==
    LET mine == {w[2] : w \in {x \in history : x[1] = c /\ Below(target, x[2])}}
    IN  IF ~Exists(fsDirs, fsFiles, target) THEN "nothing"
        ELSE IF \A q \in mine : Exists(fsDirs, fsFiles, q) THEN "all"
        ELSE "some"

\* runCode leaves its try block with a result or an error: the finally block
\* calls cleanup and awaits the fs.rm. primary keeps what the try block was
\* left with.
Leave(call, outcome) ==
    [call EXCEPT !.pending = outcome, !.primary = outcome,
                 !.pc = IF FinallyCleans(call.workspacePath) THEN "cleanup" ELSE "done"]

\* executeCommand has rejected: inside detectAndRunSetupCommands the error is
\* caught and logged and the pass goes on with its next step; everywhere else
\* it leaves the try block of runCode
Fail(call, outcome) ==
    IF call.command.kind = "setup"
    THEN [call EXCEPT !.pc = "autoSetup", !.setupIdx = @ + 1]
    ELSE Leave(call, outcome)

\* executeCommand, up to the return of its promise: exec() starts the child
\* (or fails to), and the cleanup closure is registered for both signals
NoPid == <<0, "no", "pid">>

Listener(c, kind, ok) ==
    [call |-> c, kind |-> kind, pid |-> IF ok THEN Pid(c, kind, "shell") ELSE NoPid]

Spawned(call, command, ok, fsFiles) ==
    [call EXCEPT !.pc = "exec", !.command = command,
                 !.child = IF ok THEN "running" ELSE "failed",
                 !.prog = LoadProgram(fsFiles, command), !.exit = "none",
                 !.phase = IF ~ok THEN "none"
                           ELSE IF IsPipeline(command) THEN "compile"
                           ELSE "single",
                 !.mainSeen = IF @ = NotSeen
                              THEN ContentAt(fsFiles, call.mainFilePath) ELSE @,
                 !.mainAtRun = IF command.kind = "run"
                               THEN ContentAt(fsFiles, call.mainFilePath) ELSE @]

\* childProcess.on('exit'): both listeners of this executeCommand are removed
RemoveListeners(ls, c, kind) == {l \in ls : ~(l.call = c /\ l.kind = kind)}

\* createWorkspaceDirectory, called first by runCode
Start(c, options) ==
    /\ hostAlive
    /\ rc[c].pc = "idle"
    /\ IF c = 1 THEN TRUE ELSE rc[c - 1].pc # "idle"
    /\ LET count == NextWorkspaceCount(workspaceCount)
           workspacePath == WorkspacePath(count)
       IN  /\ workspaceCount' = count
           /\ dirs' = dirs \cup {workspaceBaseDir, workspacePath}
           /\ rc' = [rc EXCEPT ![c] =
                  [IdleCall EXCEPT
                      !.pc = IF Len(options.dependencies) > 0
                             THEN "writeDeps" ELSE "writeMain",
                      !.options = options, !.workspacePath = workspacePath,
                      !.depIdx = 1,
                      !.foundEmpty = IsEmptyDir(dirs, files, workspacePath)]]
    /\ UNCHANGED <<files, procs, listeners, hostAlive, written, executed, signalled>>

\* one turn of the loop that writes the dependency files
WriteDep(c) ==
    /\ hostAlive
    /\ rc[c].pc = "writeDeps"
    /\ LET call == rc[c]
           dep == call.options.dependencies[call.depIdx]
           depPath == PathJoin(call.workspacePath, dep.filename)
       IN  IF CanWrite(dirs, depPath)
           THEN /\ files' = WriteFile(files, depPath, dep.code)
                /\ written' = written \cup {<<c, depPath>>}
                /\ rc' = [rc EXCEPT ![c].depIdx = @ + 1,
                                    ![c].pc = IF call.depIdx = Len(call.options.dependencies)
                                              THEN "writeMain" ELSE "writeDeps"]
           ELSE /\ rc' = [rc EXCEPT ![c] = Leave(call, Thrown("write", "dependencies"))]
                /\ UNCHANGED <<files, written>>
    /\ UNCHANGED <<workspaceCount, dirs, procs, listeners, hostAlive, executed, signalled>>

\* "Write main code file": the inline form writes it, the filepath form
\* takes the path as it is, a request with neither is an error; runCode
\* then goes on at position next
WriteMainTo(c, next) ==
    /\ hostAlive
    /\ rc[c].pc = "writeMain"
    /\ LET call == rc[c]
           options == call.options
           mainFilePath == PathJoin(call.workspacePath, options.filename)
       IN  IF HasInline(options)
           THEN IF CanWrite(dirs, mainFilePath)
                THEN /\ files' = WriteFile(files, mainFilePath, options.code)
                     /\ written' = written \cup {<<c, mainFilePath>>}
                     /\ rc' = [rc EXCEPT ![c].mainFilePath = mainFilePath,
                                         ![c].pc = next]
                ELSE /\ rc' = [rc EXCEPT ![c] = Leave(call, Thrown("write", "main"))]
                     /\ UNCHANGED <<files, written>>
           ELSE IF HasFilepath(options)
                THEN /\ rc' = [rc EXCEPT ![c].mainFilePath = options.filepath,
                                         ![c].pc = next]
                     /\ UNCHANGED <<files, written>>
                ELSE /\ rc' = [rc EXCEPT ![c] = Leave(call, Thrown("validation", "request"))]
                     /\ UNCHANGED <<files, written>>
    /\ UNCHANGED <<workspaceCount, dirs, procs, listeners, hostAlive, executed, signalled>>

\* runCode of src/: "Determine which file to run" follows the main file
WriteMain(c) == WriteMainTo(c, "resolve")

\* "Determine which file to run", getRunCommand, and then either the throw
\* for an unsupported type, the start of setupNodeProject, or executeCommand
Resolve(c) ==
    /\ hostAlive
    /\ rc[c].pc = "resolve"
    /\ LET call == rc[c]
           options == call.options
       IN  \E d \in (IF UsesExplicitEntry(options) THEN {NotDetected}
                     ELSE detectEntryPoint(dirs, files, call.workspacePath)) :
           LET fileToRun == IF UsesExplicitEntry(options)
                            THEN PathJoin(call.workspacePath, options.entryPoint)
                            ELSE EntryOrMain(d.path, call.mainFilePath)
               extension == ToLowerCase(ExtName(fileToRun))
               runCommand == getRunCommand(extension, fileToRun)
               resolved == [call EXCEPT !.fileToRun = fileToRun, !.detected = d]
           IN  IF runCommand = NoCommand
               THEN /\ rc' = [rc EXCEPT ![c] = Leave(resolved, Thrown("unsupported", "request"))]
                    /\ UNCHANGED <<procs, listeners, executed>>
               ELSE IF NeedsNodeSetup(extension)
               THEN /\ rc' = [rc EXCEPT ![c] = [resolved EXCEPT !.pc = "setup"]]
                    /\ UNCHANGED <<procs, listeners, executed>>
               ELSE \E ok \in BOOLEAN, forks \in ShellForks(runCommand) :
                    /\ rc' = [rc EXCEPT ![c] = Spawned(resolved, runCommand, ok, files)]
                    /\ procs' = IF ok THEN procs \cup ChildProcs(c, runCommand, forks)
                                ELSE procs
                    /\ listeners' = listeners \cup {Listener(c, "run", ok)}
                    /\ executed' = executed \cup {[call |-> c, command |-> runCommand]}
    /\ UNCHANGED <<workspaceCount, dirs, files, hostAlive, written, signalled>>

\* setupNodeProject: package.json and .babelrc are written into the
\* workspace, then npm install is started
SetupNodeProject(c) ==
    /\ hostAlive
    /\ rc[c].pc = "setup"
    /\ LET call == rc[c]
           packagePath == PathJoin(call.workspacePath, <<"package.json">>)
           babelPath == PathJoin(call.workspacePath, <<".babelrc">>)
           command == NpmInstallCommand(call.workspacePath)
       IN  IF CanWrite(dirs, packagePath) /\ CanWrite(dirs, babelPath)
           THEN \E ok \in BOOLEAN :
                /\ files' = WriteFile(WriteFile(files, packagePath, SetupPackageJson),
                                      babelPath, SetupBabelRc)
                /\ written' = written \cup {<<c, packagePath>>, <<c, babelPath>>}
                /\ rc' = [rc EXCEPT ![c] = Spawned(call, command, ok, files')]
                /\ procs' = IF ok THEN procs \cup ChildProcs(c, command, TRUE) ELSE procs
                /\ listeners' = listeners \cup {Listener(c, "install", ok)}
                /\ executed' = executed \cup {[call |-> c, command |-> command]}
           ELSE /\ rc' = [rc EXCEPT ![c] = Leave(call, Thrown("write", "setup"))]
                /\ UNCHANGED <<files, written, procs, listeners, executed>>
    /\ UNCHANGED <<workspaceCount, dirs, hostAlive, signalled>>

\* The compiler of "compile && binary" has exited: when it succeeded it has
\* written the binary, and the shell starts the binary; when it failed the
\* shell exits with the compiler's code (ChildExit)
CompileDone(c) ==
    /\ hostAlive
    /\ rc[c].pc = "exec"
    /\ rc[c].child = "running"
    /\ rc[c].phase = "compile"
    /\ AndThen(Compiles(rc[c].prog))
    /\ LET binary == BinaryPath(rc[c].command.file)
       IN  /\ files' = IF Compiles(rc[c].prog) /\ CanWrite(dirs, binary)
                       THEN WriteFile(files, binary, BinaryOf(rc[c].prog))
                       ELSE files
           /\ rc' = [rc EXCEPT ![c].phase = "binary", ![c].ranBinary = TRUE]
    /\ UNCHANGED <<workspaceCount, dirs, procs, listeners, hostAlive, written,
                   executed, signalled>>

\* The child of executeCommand ends by itself: 'exit' removes the signal
\* listeners, then the callback of exec resolves or rejects the promise.
\* A resolved npm install lets runCode go on to executeCommand(runCommand);
\* a resolved run command gives the result; a rejection leaves runCode.
ChildExit(c) ==
    /\ hostAlive
    /\ rc[c].pc = "exec"
    /\ rc[c].child = "running"
    /\ ~ExceedsMaxBuffer(Volume(rc[c].command, rc[c].prog))
    /\ rc[c].phase = "compile" => ~Compiles(rc[c].prog)
    /\ LET call == rc[c]
           kind == call.command.kind
           runCommand == getRunCommand(ToLowerCase(ExtName(call.fileToRun)), call.fileToRun)
       IN  \E o \in (IF call.phase = "compile" THEN CompileErrors
                     ELSE ExitOutcomes(call.command, call.prog)) :
           LET ended == [call EXCEPT !.child = "none",
                             !.exit = IF o.code = 0 THEN "exit 0" ELSE "exit nonzero",
                             !.buffered = Buffered(Volume(call.command, call.prog))]
           IN  IF Rejects(o.code # 0, call.command, o.stderr)
               THEN /\ rc' = [rc EXCEPT ![c] = Fail(ended, Thrown("exit", kind))]
                    /\ procs' = ReapChild(procs, c, kind)
                    /\ listeners' = RemoveListeners(listeners, c, kind)
                    /\ UNCHANGED executed
               ELSE IF kind = "install"
               THEN \E ok \in BOOLEAN, forks \in ShellForks(runCommand) :
                    /\ rc' = [rc EXCEPT ![c] = Spawned(ended, runCommand, ok, files)]
                    /\ procs' = IF ok
                                THEN ReapChild(procs, c, kind) \cup ChildProcs(c, runCommand, forks)
                                ELSE ReapChild(procs, c, kind)
                    /\ listeners' = RemoveListeners(listeners, c, kind)
                                        \cup {Listener(c, "run", ok)}
                    /\ executed' = executed \cup {[call |-> c, command |-> runCommand]}
               ELSE IF kind = "setup"
               THEN /\ rc' = [rc EXCEPT ![c] =
                                  [ended EXCEPT !.pc = "autoSetup", !.setupIdx = @ + 1,
                                                !.commandsRun = @ \cup {call.command.tool}]]
                    /\ procs' = ReapChild(procs, c, kind)
                    /\ listeners' = RemoveListeners(listeners, c, kind)
                    /\ UNCHANGED executed
               ELSE /\ rc' = [rc EXCEPT ![c] =
                                  Leave(ended, Returned(o.stdout, o.stderr, call.fileToRun))]
                    /\ procs' = ReapChild(procs, c, kind)
                    /\ listeners' = RemoveListeners(listeners, c, kind)
                    /\ UNCHANGED executed
    /\ UNCHANGED <<workspaceCount, dirs, files, hostAlive, written, signalled>>

\* The timeout of exec (30 s) expires: exec kills its child, 'exit' removes
\* the listeners, and the callback gets an error with killed set
ExecTimeout(c) ==
    /\ hostAlive
    /\ rc[c].pc = "exec"
    /\ rc[c].child = "running"
    /\ rc[c].phase # "compile"
    /\ CanOutlastTimeout(rc[c].command, rc[c].prog)
    /\ LET call == rc[c]
           kind == call.command.kind
           ended == [call EXCEPT !.child = "none", !.exit = "timeout"]
       IN  /\ procs' = KillChild(procs, c, kind)
           /\ listeners' = RemoveListeners(listeners, c, kind)
           /\ rc' = [rc EXCEPT ![c] =
                  IF Rejects(TRUE, call.command, "")
                  THEN Fail(ended, Thrown("timeout", kind))
                  ELSE Leave(ended, Returned("", "", call.fileToRun))]
    /\ UNCHANGED <<workspaceCount, dirs, files, hostAlive, written, executed, signalled>>

\* The child has written more than maxBuffer to stdout or to stderr: exec
\* cuts the stream off, destroys both streams and kills its child; 'exit'
\* removes the listeners, and the callback gets the error "stdout maxBuffer
\* length exceeded", which executeCommand rejects with
MaxBufferExceeded(c) ==
    /\ hostAlive
    /\ rc[c].pc = "exec"
    /\ rc[c].child = "running"
    /\ rc[c].phase # "compile"
    /\ ExceedsMaxBuffer(Volume(rc[c].command, rc[c].prog))
    /\ LET call == rc[c]
           kind == call.command.kind
           ended == [call EXCEPT !.child = "none", !.exit = "maxBuffer",
                                 !.buffered = Buffered(Volume(call.command, call.prog))]
       IN  /\ procs' = KillChild(procs, c, kind)
           /\ listeners' = RemoveListeners(listeners, c, kind)
           /\ rc' = [rc EXCEPT ![c] = Fail(ended, Thrown("maxBuffer", kind))]
    /\ UNCHANGED <<workspaceCount, dirs, files, hostAlive, written, executed, signalled>>

\* exec could not start the shell: the child has no pid, 'error' is emitted
\* and the callback gets the error; 'exit' is not emitted
SpawnError(c) ==
    /\ hostAlive
    /\ rc[c].pc = "exec"
    /\ rc[c].child = "failed"
    /\ LET call == rc[c]
           ended == [call EXCEPT !.child = "none", !.exit = "spawn error"]
       IN  rc' = [rc EXCEPT ![c] = Fail(ended, Thrown("spawn", call.command.kind))]
    /\ UNCHANGED <<workspaceCount, dirs, files, procs, listeners, hostAlive, written,
                   executed, signalled>>

\* The host process receives SIGINT or SIGTERM. With listeners registered,
\* each cleanup closure calls process.kill(-childProcess.pid) when the pid is
\* set, and the host goes on; without any listener the host process ends.
HostSignal ==
    /\ hostAlive
    /\ IF listeners # {}
       THEN /\ procs' = {q \in procs :
                            \A l \in listeners :
                                l.pid # NoPid => q \in KillGroup(procs, l.pid)}
            /\ signalled' = signalled \cup {<<l.call, l.kind>> : l \in listeners}
            /\ UNCHANGED <<rc, hostAlive>>
       ELSE /\ hostAlive' = FALSE
            /\ rc' = [c \in Calls |->
                         IF rc[c].pc \in {"idle", "done"} THEN rc[c]
                         ELSE [rc[c] EXCEPT !.pc = "aborted"]]
            /\ UNCHANGED <<procs, signalled>>
    /\ UNCHANGED <<workspaceCount, dirs, files, listeners, written, executed>>

\* The fs.rm of cleanup settles. When it fails, cleanup logs and throws, the
\* finally block of runCode logs again, and the call ends as it would have.
RmDone(c) ==
    /\ hostAlive
    /\ rc[c].pc = "cleanup"
    /\ LET target == CleanupPath(rc[c].workspacePath)
       IN  \E ok \in RmOutcomes(dirs, files, target) :
           IF ok
           THEN /\ dirs' = RmDirs(dirs, target)
                /\ files' = RmFiles(files, target)
                /\ rc' = [rc EXCEPT ![c].pc = "done",
                                    ![c].rmFound = Found(dirs, files, written, c, target),
                                    ![c].pending = AfterCleanup(@, TRUE)]
           ELSE /\ rc' = [rc EXCEPT ![c].pc = "done", ![c].rmThrew = TRUE,
                                    ![c].rmFound = Found(dirs, files, written, c, target),
                                    ![c].pending = AfterCleanup(@, FALSE)]
                /\ UNCHANGED <<dirs, files>>
    /\ UNCHANGED <<workspaceCount, procs, listeners, hostAlive, written, executed, signalled>>

----------------------------------------------------------------------------
\* The handler after construction, with two C source files (one with the
\* binary of an earlier compile) and a project directory (package.json,
\* server.js) outside the base directory

\* the files that requests name by filepath
ExternalFiles ==
    [f \in {<<"ext", "a.c">>, <<"ext", "bad.c">>, <<"ext", "bad.c.exe">>,
            PathJoin(ProjectDir, <<"package.json">>),
            PathJoin(ProjectDir, <<"server.js">>)} |->
        CASE f = <<"ext", "a.c">> -> CLoop
          [] f = <<"ext", "bad.c">> -> CBad
          [] f = <<"ext", "bad.c.exe">> -> StaleBinary
          [] f = PathJoin(ProjectDir, <<"package.json">>) -> PkgStartUnquoted
          [] OTHER -> JsThrow]

Init ==
    /\ workspaceCount = 0
    /\ dirs = {<<>>, workspaceBaseDir, <<"ext">>, ProjectDir}
    /\ files = ExternalFiles
    /\ rc = [c \in Calls |-> IdleCall]
    /\ procs = {}
    /\ listeners = {}
    /\ hostAlive = TRUE
    /\ written = {}
    /\ executed = {}
    /\ signalled = {}

Next ==
    \/ \E c \in Calls, options \in Requests : Start(c, options)
    \/ \E c \in Calls : WriteDep(c)
    \/ \E c \in Calls : WriteMain(c)
    \/ \E c \in Calls : Resolve(c)
    \/ \E c \in Calls : SetupNodeProject(c)
    \/ \E c \in Calls : CompileDone(c)
    \/ \E c \in Calls : ChildExit(c)
    \/ \E c \in Calls : ExecTimeout(c)
    \/ \E c \in Calls : SpawnError(c)
    \/ \E c \in Calls : MaxBufferExceeded(c)
    \/ \E c \in Calls : RmDone(c)
    \/ HostSignal

Spec == Init /\ [][Next]_vars

----------------------------------------------------------------------------
\* The host process over several lifetimes: process.exit(1) of the
\* uncaughtException / unhandledRejection handlers ends it wherever the
\* runCode calls are, and the server is started again on the same base
\* directory with a new handler object.

\* process.exit(1): no catch or finally block of runCode runs any more
HostExit ==
    /\ hostAlive
    /\ hostAlive' = FALSE
    /\ rc' = [c \in Calls |->
                 IF rc[c].pc \in {"idle", "done"} THEN rc[c]
                 ELSE [rc[c] EXCEPT !.pc = "aborted"]]
    /\ UNCHANGED <<workspaceCount, dirs, files, procs, listeners, written,
                   executed, signalled>>

\* a new host process: new CursorShadowWorkspaceHandler() sets workspaceCount
\* to 0 and makes the base directory if it is absent; the disk and the
\* processes the old host left behind stay as they are. The histories are
\* those of the running host process and start again.
HostRestart ==
    /\ ~hostAlive
    /\ hostAlive' = TRUE
    /\ workspaceCount' = 0
    /\ dirs' = dirs \cup {workspaceBaseDir}
    /\ rc' = [c \in Calls |-> IdleCall]
    /\ listeners' = {}
    /\ written' = {}
    /\ executed' = {}
    /\ signalled' = {}
    /\ UNCHANGED <<files, procs>>

\* the requests made in the lifetimes of the host
RestartRequests == {ReqHi, ReqTs, ReqDetect}

\* the number of runCode calls in each lifetime of the host
MaxRestartCalls == 1

RestartCalls == 1..MaxRestartCalls

NextRestart ==
    \/ \E c \in RestartCalls, options \in RestartRequests : Start(c, options)
    \/ \E c \in RestartCalls : WriteDep(c)
    \/ \E c \in RestartCalls : WriteMain(c)
    \/ \E c \in RestartCalls : Resolve(c)
    \/ \E c \in RestartCalls : SetupNodeProject(c)
    \/ \E c \in RestartCalls : ChildExit(c)
    \/ \E c \in RestartCalls : ExecTimeout(c)
    \/ \E c \in RestartCalls : SpawnError(c)
    \/ \E c \in RestartCalls : RmDone(c)
    \/ HostSignal
    \/ HostExit
    \/ HostRestart

SpecRestart == Init /\ [][NextRestart]_vars

----------------------------------------------------------------------------
\* runCode of build/: after the main file it calls detectAndRunSetupCommands
\* (options.autoSetup is never passed by run_cursor, so it is never false),
\* and only then determines the file to run.

\* const setupIndicators, laid out in the order in which the pass comes to
\* the commands: the commands of an indicator whose file is found, then for
\* package.json the install and the build of every sub-directory, then
\* `npm run build`
SubDirSteps(dir) ==
    << [file |-> "package.json", command |-> "cd " \o dir \o " && npm install",
        cond |-> "subDir", dir |-> dir],
       [file |-> "package.json", command |-> "cd " \o dir \o " && npm run build",
        cond |-> "subDirBuild", dir |-> dir] >>

IndicatorStep(file, command) ==
    [file |-> file, command |-> command, cond |-> "found", dir |-> ""]

\* the table with yarn.lock given the install command of package.json
setupIndicatorsSharedCommand ==
    << IndicatorStep("package.json", "npm install"),
       IndicatorStep("yarn.lock", "npm install") >>

setupIndicators ==
    << IndicatorStep("requirements.txt", "pip install -r requirements.txt"),
       IndicatorStep("Pipfile", "pipenv install"),
       IndicatorStep("package.json", "npm install") >>
    \o SubDirSteps("frontend") \o SubDirSteps("client")
    \o SubDirSteps("web") \o SubDirSteps("ui")
    \o << [file |-> "package.json", command |-> "npm run build",
            cond |-> "rootBuild", dir |-> ""],
          IndicatorStep("yarn.lock", "yarn install"),
          IndicatorStep("pnpm-lock.yaml", "pnpm install"),
          IndicatorStep("*.csproj", "dotnet restore"),
          IndicatorStep("pom.xml", "mvn install"),
          IndicatorStep("build.gradle", "gradle build"),
          IndicatorStep("Cargo.toml", "cargo build"),
          IndicatorStep("go.mod", "go mod download") >>

\* matchesPattern: "*.ext" matches by the end of the name, anything else by
\* equality
matchesPattern(filename, pattern) ==
    IF pattern = "*.csproj" THEN filename \in {"app.csproj"} ELSE filename = pattern

\* findFiles: the files below dir, at any depth, whose name matches
findFiles(fsFiles, dir, pattern) ==
    {f \in DOMAIN fsFiles : Below(dir, f) /\ matchesPattern(Basename(f), pattern)}

\* packageJson.scripts.build (or scripts['build:prod'] in a sub-directory)
\* of the package.json at p; a file that is absent or does not parse has none
HasBuildScript(fsFiles, p) ==
    p \in DOMAIN fsFiles /\ JsonParses(fsFiles[p]) /\ fsFiles[p] = PkgBuild

\* the pass comes to the command of this step
StepApplies(fsDirs, fsFiles, workspacePath, step) ==
    /\ findFiles(fsFiles, workspacePath, step.file) # {}
    /\ CASE step.cond = "found" -> TRUE
         [] step.cond = "subDir" ->
                Exists(fsDirs, fsFiles, PathJoin(workspacePath, <<step.dir>>))
         [] step.cond = "subDirBuild" ->
                /\ Exists(fsDirs, fsFiles, PathJoin(workspacePath, <<step.dir>>))
                /\ HasBuildScript(fsFiles,
                                  PathJoin(workspacePath, <<step.dir, "package.json">>))
         [] OTHER ->
                HasBuildScript(fsFiles, PathJoin(workspacePath, <<"package.json">>))

\* the first step from position i on whose command the pass executes: the
\* step applies and commandsRun does not have its command; 0 when the pass
\* is at its end
NextSetupStep(fsDirs, fsFiles, workspacePath, i, commandsRun) ==
    LET todo == {j \in i..Len(setupIndicators) :
                    /\ StepApplies(fsDirs, fsFiles, workspacePath, setupIndicators[j])
                    /\ setupIndicators[j].command \notin commandsRun}
    IN  IF todo = {} THEN 0 ELSE CHOOSE j \in todo : \A k \in todo : j <= k

\* `cd "${workspacePath}" && ${command}`
SetupCommand(workspacePath, command) ==
    [kind |-> "setup", tool |-> command, file |-> workspacePath, compound |-> TRUE]

\* runCode of build/: detectAndRunSetupCommands follows the main file
WriteMainBuild(c) == WriteMainTo(c, "autoSetup")

\* detectAndRunSetupCommands, from one await of executeCommand to the next:
\* the pass goes on to the next command it has to execute and starts it, or
\* comes to its end and runCode goes on to determine the file to run
AutoSetup(c) ==
    /\ hostAlive
    /\ rc[c].pc = "autoSetup"
    /\ LET call == rc[c]
           j == NextSetupStep(dirs, files, call.workspacePath, call.setupIdx + 1,
                              call.commandsRun)
       IN  IF j = 0
           THEN /\ rc' = [rc EXCEPT ![c].pc = "resolve"]
                /\ UNCHANGED <<procs, listeners, executed>>
           ELSE \E ok \in BOOLEAN :
                LET command == SetupCommand(call.workspacePath, setupIndicators[j].command)
                IN  /\ rc' = [rc EXCEPT ![c] =
                              [Spawned(call, command, ok, files) EXCEPT
                                  !.setupIdx = j - 1,
                                  !.setupLog = Append(@, command.tool)]]
                    /\ procs' = IF ok THEN procs \cup ChildProcs(c, command, TRUE)
                                ELSE procs
                    /\ listeners' = listeners \cup {Listener(c, "setup", ok)}
                    /\ executed' = executed \cup {[call |-> c, command |-> command]}
    /\ UNCHANGED <<workspaceCount, dirs, files, hostAlive, written, signalled>>

\* a requirements.txt comes with a main file of an unsupported type
ReqReqsUnsupported ==
    Options("hello", <<"notes.txt">>, None,
            <<Dep(ReqsTxt, <<"requirements.txt">>)>>, None)

\* a Node project with a build script and a yarn.lock
ReqNodeYarn ==
    Options(JsThrow, <<"server.js">>, None,
            <<Dep(PkgBuild, <<"package.json">>), Dep(YarnLock, <<"yarn.lock">>)>>,
            None)

\* the requests made to the handler of build/
BuildRequests == {ReqHi, ReqTs, ReqReqsUnsupported, ReqNodeYarn}

\* calls made to the handler of build/
MaxBuildCalls == 1

BuildCalls == 1..MaxBuildCalls

NextBuild ==
    \/ \E c \in BuildCalls, options \in BuildRequests : Start(c, options)
    \/ \E c \in BuildCalls : WriteDep(c)
    \/ \E c \in BuildCalls : WriteMainBuild(c)
    \/ \E c \in BuildCalls : AutoSetup(c)
    \/ \E c \in BuildCalls : Resolve(c)
    \/ \E c \in BuildCalls : SetupNodeProject(c)
    \/ \E c \in BuildCalls : ChildExit(c)
    \/ \E c \in BuildCalls : ExecTimeout(c)
    \/ \E c \in BuildCalls : SpawnError(c)
    \/ \E c \in BuildCalls : RmDone(c)
    \/ HostSignal

SpecBuild == Init /\ [][NextBuild]_vars

----------------------------------------------------------------------------
\* Properties of runCode

Settled(c) == rc[c].pc = "done"

Created(c) == rc[c].workspacePath # None

\* the commands that call c has handed to exec
ExecutedBy(c) == {e \in executed : e.call = c}

\* C1 as stated: once a runCode call whose workspace directory was created
\* has settled, in whatever way, the workspace directory does not exist.
C1_WorkspaceGoneWhenSettled ==
    \A c \in Calls : Settled(c) /\ Created(c) => rc[c].workspacePath \notin dirs

\* C1 as amended: once a runCode call whose workspace directory was created
\* has settled, in whatever way, the directory does not exist unless the
\* fs.rm of cleanup itself failed (which is logged and swallowed).
C1_WorkspaceGoneUnlessRmFailed ==
    \A c \in Calls :
        Settled(c) /\ Created(c) =>
            rc[c].rmThrew \/ ~Exists(dirs, files, rc[c].workspacePath)

\* a call that ended by the timeout of its run command and whose workspace
\* has been removed
C1_Witness ==
    \E c \in Calls :
        /\ Settled(c) /\ Created(c)
        /\ rc[c].pending.kind = "throw" /\ rc[c].pending.reason = "timeout"
        /\ ~rc[c].rmThrew
        /\ rc[c].workspacePath \notin dirs

\* C2: no two runCode calls of one host process get the same workspace id
\* (workspace directory) from createWorkspaceDirectory.
C2_UniqueWorkspaceIds ==
    \A c1, c2 \in Calls :
        c1 # c2 /\ Created(c1) /\ Created(c2) =>
            rc[c1].workspacePath # rc[c2].workspacePath

\* two calls are between createWorkspaceDirectory and cleanup at once
C2_Witness ==
    \E c1, c2 \in Calls :
        /\ c1 # c2
        /\ rc[c1].pc \in {"writeDeps", "writeMain", "resolve", "setup", "exec"}
        /\ rc[c2].pc \in {"writeDeps", "writeMain", "resolve", "setup", "exec"}
        /\ rc[c1].workspacePath \in dirs /\ rc[c2].workspacePath \in dirs

\* C3 as stated: every file runCode writes for a request lies inside that
\* request's own workspace directory.
C3_WritesInsideOwnWorkspace ==
    \A w \in written : Below(rc[w[1]].workspacePath, w[2])

\* C4 as stated: when the run command exits non-zero or times out, runCode
\* still returns a result object with success and both streams; it does not
\* end by throwing.
C4_ResultEvenOnFailure ==
    \A c \in Calls :
        /\ Settled(c)
        /\ rc[c].command.kind = "run"
        /\ rc[c].exit \in {"exit nonzero", "timeout"}
        => rc[c].pending.kind = "return"

\* C5 as stated: after a timeout of the command, the child and every process
\* it spawned are terminated, the failure is told apart from a non-zero
\* exit, and no process of the command is alive once the call has settled.
C5_TimeoutLeavesNoProcess ==
    \A c \in Calls :
        rc[c].exit = "timeout" /\ rc[c].pc \in {"cleanup", "done"} =>
            /\ rc[c].pending.kind = "throw" /\ rc[c].pending.reason = "timeout"
            /\ ~\E q \in procs : q.call = c

\* C6 as stated: once the cleanup closure of an executeCommand call has
\* handled SIGINT or SIGTERM, no process started by that call is alive.
C6_SignalKillsChildGroup ==
    \A s \in signalled : ~\E q \in procs : q.call = s[1] /\ q.kind = s[2]

\* code+filename and filepath: exactly one of the two forms is supplied
SuppliesInline(options) == options.code # NoText /\ options.filename # None

SuppliesFilepath(options) == options.filepath # None

ExactlyOneForm(options) == SuppliesInline(options) # SuppliesFilepath(options)

\* runCode has come to the branch that looks at code, filename and filepath
ReachedValidation(c) ==
    \/ rc[c].pc \in {"resolve", "setup", "exec"}
    \/ /\ rc[c].pc \in {"cleanup", "done"}
       /\ ~(rc[c].pending.reason = "write" /\ rc[c].pending.stage = "dependencies")

\* C7 as stated: a request that supplies both forms, or neither, is rejected
\* with the validation error and no command is executed for it.
C7_RejectsUnlessExactlyOne ==
    \A c \in Calls :
        Created(c) /\ ~ExactlyOneForm(rc[c].options) =>
            /\ ExecutedBy(c) = {}
            /\ Settled(c) /\ ReachedValidation(c) =>
                   rc[c].pending = Thrown("validation", "request")

\* C7 as amended: a request that supplies neither form has no command
\* executed and ends with the validation error (or with the error of a
\* dependency write that failed before); a request that supplies both forms
\* is not rejected: it is run in the inline form, its main file being
\* filename inside the workspace.
C7_RejectsNeither ==
    \A c \in Calls :
        Created(c) =>
            /\ ~SuppliesInline(rc[c].options) /\ ~SuppliesFilepath(rc[c].options) =>
                   /\ ExecutedBy(c) = {}
                   /\ rc[c].pc \notin {"resolve", "setup", "exec"}
                   /\ Settled(c) => rc[c].pending.kind = "throw"
                   /\ Settled(c) /\ ReachedValidation(c) =>
                          rc[c].pending = Thrown("validation", "request")
            /\ SuppliesInline(rc[c].options) /\ rc[c].mainFilePath # None =>
                   rc[c].mainFilePath =
                       PathJoin(rc[c].workspacePath, rc[c].options.filename)

\* a request with both forms has had its command executed, and a request
\* with neither has ended with the validation error
C7_Witness ==
    \E c1, c2 \in Calls :
        /\ SuppliesInline(rc[c1].options) /\ SuppliesFilepath(rc[c1].options)
        /\ ExecutedBy(c1) # {}
        /\ rc[c2].options = NoOptions /\ Settled(c2)
        /\ rc[c2].pending = Thrown("validation", "request")

\* C9: with an explicit entryPoint the file that is run is that path joined
\* to the workspace root, and detectEntryPoint is not consulted.
C9_ExplicitEntryPoint ==
    \A c \in Calls :
        Created(c) /\ rc[c].options.entryPoint # None =>
            LET entry == PathJoin(rc[c].workspacePath, rc[c].options.entryPoint)
            IN  /\ rc[c].detected = NotDetected
                /\ rc[c].fileToRun \in {None, entry}
                /\ \A e \in ExecutedBy(c) : e.command.kind = "run" => e.command.file = entry

\* the explicit entry point is running while the workspace also holds
\* main.py, which the detection would have returned
C9_Witness ==
    \E c \in Calls :
        /\ rc[c].options.entryPoint = <<"util.py">>
        /\ rc[c].pc = "exec" /\ rc[c].child = "running"
        /\ rc[c].command.file = PathJoin(rc[c].workspacePath, <<"util.py">>)
        /\ PathJoin(rc[c].workspacePath, <<"main.py">>) \in DOMAIN files

\* C10: without an explicit entryPoint and with no hit in any tier, runCode
\* runs the request's main file (the written file or the filepath); the
\* request {code: print('hi'), filename: a.py}, its file holding that code
\* when the command starts, runs a.py and returns success with empty stderr.
C10_FallbackToMainFile ==
    \A c \in Calls :
        rc[c].options.entryPoint = None /\ rc[c].detected.tier = "none" =>
            /\ rc[c].fileToRun = rc[c].mainFilePath
            /\ \A e \in ExecutedBy(c) :
                   e.command.kind = "run" => e.command.file = rc[c].mainFilePath
            /\ ( /\ rc[c].options = ReqHi
                 /\ rc[c].pc \in {"cleanup", "done"}
                 /\ rc[c].exit \in {"exit 0", "exit nonzero"}
                 /\ rc[c].prog = PyHi )
               => /\ rc[c].pending.kind = "return"
                  /\ rc[c].pending.entryPoint = PathJoin(rc[c].workspacePath, <<"a.py">>)
                  /\ rc[c].pending.output = "hi\n"
                  /\ rc[c].pending.error = ""
                  /\ rc[c].pending.success

\* the request {code: print('hi'), filename: a.py} has returned its result
C10_Witness ==
    \E c \in Calls :
        /\ rc[c].options = ReqHi /\ Settled(c)
        /\ rc[c].detected.tier = "none"
        /\ rc[c].pending.kind = "return" /\ rc[c].pending.success
        /\ rc[c].pending.entryPoint = PathJoin(rc[c].workspacePath, <<"a.py">>)

\* C11: for the request whose filepath is the directory ext/proj (only
\* package.json with scripts.start = "node server.js", and a server.js that
\* throws), the entry point is server.js of that directory, found by the
\* package.json tier, and runCode returns a result with success false and a
\* non-empty stderr.
C11_ManifestScenario ==
    \A c \in Calls :
        rc[c].options = ReqDir /\ Settled(c) =>
            /\ rc[c].detected.tier = "manifest"
            /\ rc[c].fileToRun = PathJoin(ProjectDir, <<"server.js">>)
            /\ rc[c].pending.kind = "return"
            /\ ~rc[c].pending.success
            /\ rc[c].pending.error # ""

\* C12: whenever runCode returns a result, success is true exactly when the
\* process exited with status 0 and stderr is empty or whitespace only.
C12_SuccessIffExitZeroAndQuiet ==
    \A c \in Calls :
        rc[c].pending.kind = "return" =>
            (rc[c].pending.success <=>
                (rc[c].exit = "exit 0" /\ Trim(rc[c].pending.error) = ""))

\* C13: a failure of the npm install of setupNodeProject is swallowed: a call
\* that started the install and has settled has gone on to start its run
\* command, and has not ended with the error of the install.
C13_SetupFailureSwallowed ==
    \A c \in Calls :
        /\ Settled(c)
        /\ \E e \in ExecutedBy(c) : e.command.kind = "install"
        => /\ \E e \in ExecutedBy(c) : e.command.kind = "run"
           /\ ~(rc[c].pending.kind = "throw" /\ rc[c].pending.stage = "install")

\* C14: when the fs.rm of cleanup fails, runCode still settles with the
\* outcome its try block was left with: the same result object, or the same
\* error of the earlier stage; the cleanup error replaces neither.
C14_CleanupFailureKeepsOutcome ==
    \A c \in Calls :
        Settled(c) /\ rc[c].rmThrew =>
            /\ rc[c].pending = rc[c].primary
            /\ rc[c].pending.kind \in {"return", "throw"}
            /\ rc[c].pending.stage # "finally"

\* one call has settled with its result and another with the error of an
\* earlier stage, the fs.rm of both having failed
C14_Witness ==
    \E c1, c2 \in Calls :
        /\ Settled(c1) /\ rc[c1].rmThrew /\ rc[c1].pending.kind = "return"
        /\ rc[c1].workspacePath \in dirs
        /\ Settled(c2) /\ rc[c2].rmThrew /\ rc[c2].pending.kind = "throw"

\* C15: for every request with code and filename, when the first command of
\* the call (install or run) is handed to exec, the main file lies inside the
\* workspace of the call and holds the supplied code.
C15_MainFileBeforeFirstCommand ==
    \A c \in Calls :
        SuppliesInline(rc[c].options) /\ ExecutedBy(c) # {} =>
            /\ Below(rc[c].workspacePath, rc[c].mainFilePath)
            /\ rc[c].mainSeen = rc[c].options.code

\* a dependency of the request has the file name of the main file
SharesMainName(options) ==
    \E i \in 1..Len(options.dependencies) :
        options.dependencies[i].filename = options.filename

\* C16: the main file is not written while a dependency file is still to be
\* written; and when a dependency has the file name of the main file, the
\* file holds the main code at the moment the run command is started.
C16_MainCodeWinsAtRun ==
    \A c \in Calls :
        /\ rc[c].pc = "writeDeps" => rc[c].mainFilePath = None
        /\ ( /\ SuppliesInline(rc[c].options) /\ SharesMainName(rc[c].options)
             /\ rc[c].mainAtRun # NotSeen )
           => rc[c].mainAtRun = rc[c].options.code

\* C17: the directory that createWorkspaceDirectory returns is empty at the
\* moment it is returned, whatever earlier requests and earlier host
\* processes have done on the same base directory.
C17_FreshWorkspaceEmpty ==
    \A c \in Calls : Created(c) => rc[c].foundEmpty

\* C19 as stated: what executeCommand holds of the output of one command
\* never exceeds maxBuffer, stdout and stderr taken together.
C19_CombinedOutputBounded ==
    \A c \in Calls : rc[c].buffered.out + rc[c].buffered.err <= MaxBuffer

\* C19 as amended: what executeCommand holds of each stream never exceeds
\* maxBuffer (so twice maxBuffer at most for both together); when the child
\* writes more to one stream, the call ends in failure with nothing
\* returned, and the child that exec started is no longer running.
C19_EachStreamBounded ==
    \A c \in Calls :
        /\ rc[c].buffered.out <= MaxBuffer
        /\ rc[c].buffered.err <= MaxBuffer
        /\ rc[c].buffered.out + rc[c].buffered.err <= 2 * MaxBuffer
        /\ rc[c].exit = "maxBuffer" =>
               /\ rc[c].pending = Thrown("maxBuffer", rc[c].command.kind)
               /\ \A q \in procs : ~(q.call = c /\ q.role = "shell")
        /\ ( /\ rc[c].pc \in {"cleanup", "done"}
             /\ rc[c].command.kind = "run"
             /\ ExceedsMaxBuffer(Volume(rc[c].command, rc[c].prog)) )
           => rc[c].pending.kind = "throw"

\* one call has failed for a stdout cut off at maxBuffer, and another has
\* returned a result with both streams filled up to maxBuffer
C19_Witness ==
    \E c1, c2 \in Calls :
        /\ rc[c1].exit = "maxBuffer" /\ rc[c1].buffered.out = MaxBuffer
        /\ rc[c1].pending.kind = "throw"
        /\ rc[c2].pending.kind = "return"
        /\ rc[c2].buffered = [out |-> MaxBuffer, err |-> MaxBuffer]

\* C20: the run command of a compiled language compiles first and executes
\* second: the binary is started only after the compiler has succeeded on
\* the source. When the compiler fails, no binary is started, whether or not
\* one of an earlier compile lies next to the source, and runCode ends in an
\* error: it throws, or (when the text 'exit code 1' is in the error
\* message) it returns success false with the compiler's messages as error.
C20_NoBinaryAfterFailedCompile ==
    \A c \in Calls :
        IsPipeline(rc[c].command) =>
            /\ IsCompiled(ToLowerCase(ExtName(rc[c].command.file)))
            /\ rc[c].ranBinary => Compiles(rc[c].prog)
            /\ rc[c].phase = "binary" => rc[c].ranBinary
            /\ ( ~Compiles(rc[c].prog) /\ rc[c].pc \in {"cleanup", "done"}
                 /\ rc[c].exit = "exit nonzero" )
               => /\ ~rc[c].ranBinary
                  /\ \/ rc[c].pending = Thrown("exit", "run")
                     \/ /\ rc[c].pending.kind = "return"
                        /\ ~rc[c].pending.success
                        /\ rc[c].pending.error # ""
                        /\ MessageIncludesExitCode1(rc[c].command, rc[c].pending.error)

\* the compile of ext/bad.c has failed with the binary of an earlier compile
\* still next to it, and runCode has thrown without starting it
C20_Witness ==
    \E c \in Calls :
        /\ rc[c].options = ReqBadC /\ Settled(c)
        /\ rc[c].command = getRunCommand(".c", <<"ext", "bad.c">>)
        /\ rc[c].exit = "exit nonzero" /\ ~rc[c].ranBinary
        /\ rc[c].pending = Thrown("exit", "run")
        /\ <<"ext", "bad.c.exe">> \in DOMAIN files
        /\ files[<<"ext", "bad.c.exe">>] = StaleBinary

----------------------------------------------------------------------------
\* cleanup(workspaceId) called on workspaces of which any part can be gone
\* already: two calls of cleanup for the same workspace id, each awaiting its
\* fs.rm, on a disk that holds none, some or all of what the request wrote

\* the files the request wrote into its workspace
CleanupNames == {"a.py", "util.py", "package.json"}

\* the outcome the try block of runCode was left with
CleanupOutcomes ==
    {Returned("hi\n", "", PathJoin(WorkspacePath(1), <<"a.py">>)), Thrown("exit", "run")}

InitCleanup ==
    \E n \in 1..MaxCalls, there \in BOOLEAN, left \in SUBSET CleanupNames,
       outcome \in CleanupOutcomes :
        /\ there \/ left = {}
        /\ workspaceCount = MaxCalls
        /\ dirs = {<<>>, workspaceBaseDir, <<"ext">>}
                      \cup (IF there THEN {WorkspacePath(n)} ELSE {})
        /\ files = [f \in {<<"ext", "a.c">>} \cup
                          {PathJoin(WorkspacePath(n), <<x>>) : x \in left} |->
                       IF f = <<"ext", "a.c">> THEN CLoop ELSE PyHi]
        /\ rc = [c \in Calls |->
                    [IdleCall EXCEPT !.pc = "cleanup", !.options = ReqHi,
                                     !.workspacePath = WorkspacePath(n),
                                     !.pending = outcome, !.primary = outcome]]
        /\ procs = {}
        /\ listeners = {}
        /\ hostAlive = TRUE
        /\ written = {<<c, PathJoin(WorkspacePath(n), <<x>>)>> :
                          c \in Calls, x \in CleanupNames}
        /\ executed = {}
        /\ signalled = {}

NextCleanup == \E c \in Calls : RmDone(c)

SpecCleanup == InitCleanup /\ [][NextCleanup]_vars

\* nothing of the workspace of call c is on disk
WorkspaceGone(c) ==
    LET target == CleanupPath(rc[c].workspacePath)
    IN  /\ ~Exists(dirs, files, target)
        /\ IsEmptyDir(dirs, files, target)

----------------------------------------------------------------------------
\* detectEntryPoint on the workspaces that requests can build: the files of
\* a request are written into the workspace root, so a workspace at the
\* moment of detection is a set of root files

\* the file names of the requests, in the order the dependencies are given
DetectNames ==
    <<"requirements.txt", "go.mod", "package.json", "main.py", "main.go",
      "server.js", "util.py", ".hidden.py", "a.py">>

\* the contents a request can give package.json
ManifestContents == {PkgMain, PkgStartQuoted, PkgStartUnquoted}

\* the content the request gives the file, manifest being that of package.json
DetectContent(name, manifest) ==
    CASE name = "requirements.txt" -> ReqsTxt
      [] name = "go.mod" -> "module m"
      [] name = "package.json" -> manifest
      [] name = "main.py" -> PyHi
      [] name = "main.go" -> "package main"
      [] name = "server.js" -> JsThrow
      [] name = "util.py" -> PyMainFn
      [] name = ".hidden.py" -> PyMainFn
      [] OTHER -> PyHi

\* runCode after "Write main code file" for the request whose main file is
\* main and whose dependencies are the other names of present
DetectCall(present, main, manifest) ==
    LET depNames == SelectSeq(DetectNames, LAMBDA n : n \in present /\ n # main)
    IN  [IdleCall EXCEPT
            !.pc = "resolve",
            !.options = Options(DetectContent(main, manifest), <<main>>, None,
                                [i \in 1..Len(depNames) |->
                                    Dep(DetectContent(depNames[i], manifest),
                                        <<depNames[i]>>)],
                                None),
            !.workspacePath = WorkspacePath(1),
            !.depIdx = Len(depNames) + 1,
            !.mainFilePath = PathJoin(WorkspacePath(1), <<main>>)]

\* what is in the workspace below its root: nothing, or the node_modules
\* that an npm install has left there (the setup pass of build/ runs it
\* before the detection; a workspace directory that is used again holds the
\* one of setupNodeProject)
DetectTrees == {"flat", "node_modules"}

TreeDirs(tree) ==
    IF tree = "flat" THEN {}
    ELSE {PathJoin(WorkspacePath(1), <<"node_modules">>),
          PathJoin(WorkspacePath(1), <<"node_modules", ".bin">>)}

TreeFiles(tree) ==
    IF tree = "flat" THEN {}
    ELSE {PathJoin(WorkspacePath(1), <<"node_modules", ".bin", "cli.js">>)}

InitDetect ==
    \E present \in (SUBSET {DetectNames[i] : i \in 1..Len(DetectNames)}) \ {{}} :
    \E main \in present :
    \E manifest \in ManifestContents :
    \E tree \in DetectTrees :
        /\ workspaceCount = 1
        /\ dirs = {<<>>, workspaceBaseDir, <<"ext">>, WorkspacePath(1)} \cup TreeDirs(tree)
        /\ files = [f \in {<<"ext", "a.c">>} \cup TreeFiles(tree) \cup
                          {PathJoin(WorkspacePath(1), <<n>>) : n \in present} |->
                       IF f = <<"ext", "a.c">> THEN CLoop
                       ELSE IF f \in TreeFiles(tree) THEN JsExports
                       ELSE DetectContent(Basename(f), manifest)]
        /\ rc = [c \in Calls |->
                    IF c = 1 THEN DetectCall(present, main, manifest) ELSE IdleCall]
        /\ procs = {}
        /\ listeners = {}
        /\ hostAlive = TRUE
        /\ written = {<<1, PathJoin(WorkspacePath(1), <<n>>)>> : n \in present}
        /\ executed = {}
        /\ signalled = {}

NextDetect == \E c \in Calls : Resolve(c)

SpecDetect == InitDetect /\ [][NextDetect]_vars

\* the facts about the workspace of call c that the tiers look at
HasFile(c, rel) == Exists(dirs, files, PathJoin(rc[c].workspacePath, rel))

FrameworkPairPresent(c) ==
    \E i \in 1..Len(frameworkConfigs) :
        HasFile(c, frameworkConfigs[i].file) /\ HasFile(c, frameworkConfigs[i].entry)

ManifestEntryPresent(c) ==
    LET p == PathJoin(rc[c].workspacePath, <<"package.json">>)
    IN  /\ p \in DOMAIN files
        /\ JsonParses(files[p])
        /\ \E i \in 1..Len(PossibleEntries(files[p])) :
               HasFile(c, PossibleEntries(files[p])[i])

PatternPresent(c) ==
    \E i \in 1..Len(entryPointPatterns) : HasFile(c, entryPointPatterns[i])

MarkerFilePresent(c) ==
    \E f \in DOMAIN files :
        /\ Below(rc[c].workspacePath, f)
        /\ ~StartsWithDot(RelTo(rc[c].workspacePath, f))
        /\ HasEntryMarker(files[f])

FrameworkPairs(c) ==
    {i \in 1..Len(frameworkConfigs) :
        HasFile(c, frameworkConfigs[i].file) /\ HasFile(c, frameworkConfigs[i].entry)}

\* C24: in the framework tier detectEntryPoint returns the entry of the
\* first row, in table order, whose config file and entry file both exist;
\* a row whose config file exists without its entry does not end the scan.
C24_FirstFrameworkPair ==
    \A c \in Calls :
        rc[c].detected.tier # "not consulted" =>
            IF FrameworkPairs(c) = {}
            THEN rc[c].detected.tier # "framework"
            ELSE LET i == CHOOSE k \in FrameworkPairs(c) :
                              \A j \in FrameworkPairs(c) : k <= j
                 IN  rc[c].detected =
                         [path |-> PathJoin(rc[c].workspacePath, frameworkConfigs[i].entry),
                          tier |-> "framework"]

\* go.mod is in the workspace without main.go; the later row of
\* requirements.txt, whose main.py exists, gave the entry
C24_Witness ==
    \E c \in Calls :
        /\ HasFile(c, <<"go.mod">>) /\ ~HasFile(c, <<"main.go">>)
        /\ HasFile(c, <<"requirements.txt">>) /\ HasFile(c, <<"main.py">>)
        /\ rc[c].detected = [path |-> PathJoin(rc[c].workspacePath, <<"main.py">>),
                             tier |-> "framework"]

\* C25 as stated: the content scan never returns a hidden file or a file
\* inside a hidden directory, at any depth of the workspace tree.
C25_ContentScanSkipsHidden ==
    \A c \in Calls :
        rc[c].detected.tier = "content" =>
            LET rel == RelTo(rc[c].workspacePath, rc[c].detected.path)
            IN  \A i \in DOMAIN rel : ~IsDotName(rel[i])

----------------------------------------------------------------------------
\* Properties of the requests as a whole

\* the file that call c decided to run has a type with no run command
RunsUnsupported(c) ==
    /\ rc[c].fileToRun # None
    /\ Interpreter(ToLowerCase(ExtName(rc[c].fileToRun))) = "unsupported"

\* C21 as stated: when the file to run has an extension outside the
\* getRunCommand table, runCode ends with the unsupported-file-type request
\* error, no command of any kind was executed for the request, and the
\* workspace is removed (unless fs.rm itself failed).
C21_UnsupportedRunsNothing ==
    \A c \in Calls :
        RunsUnsupported(c) /\ rc[c].pc \in {"cleanup", "done"} =>
            /\ rc[c].pending = Thrown("unsupported", "request")
            /\ ExecutedBy(c) = {}
            /\ (Settled(c) /\ ~rc[c].rmThrew => rc[c].workspacePath \notin dirs)

\* C22: within one detectAndRunSetupCommands pass no setup command string is
\* handed to executeCommand more than once, also when several indicators of
\* the table match the workspace and when an execution of a command failed.
C22_NoSetupCommandTwice ==
    \A c \in Calls :
        \A i, j \in DOMAIN rc[c].setupLog :
            i # j => rc[c].setupLog[i] # rc[c].setupLog[j]

\* the pass for a workspace with package.json (build script) and yarn.lock
\* is over: three commands were executed, and `npm install` failed
C22_Witness ==
    \E c \in Calls :
        /\ rc[c].options = ReqNodeYarn
        /\ rc[c].pc = "resolve"
        /\ rc[c].setupLog = <<"npm install", "npm run build", "yarn install">>
        /\ "npm install" \notin rc[c].commandsRun
        /\ "yarn install" \in rc[c].commandsRun

\* the kinds of the commands that call c has handed to exec so far
KindsExecutedBy(c) == {e.command.kind : e \in ExecutedBy(c)}

\* an executeCommand of call c for a command of one of the kinds is pending
Executing(c, kinds) == rc[c].pc = "exec" /\ rc[c].command.kind \in kinds

FilesRunBy(c) == {e.command.file : e \in {x \in ExecutedBy(c) : x.command.kind = "run"}}

\* C26 as stated: for a request with code and filename and no explicit
\* entryPoint the file that runCode executes is the written main file,
\* whatever dependency files the request also supplies.
C26_RunsWrittenMainFile ==
    \A c \in Calls :
        SuppliesInline(rc[c].options) /\ rc[c].options.entryPoint = None =>
            FilesRunBy(c) \subseteq {rc[c].mainFilePath}

\* C26, amended: for such a request runCode executes the entry point that
\* detectEntryPoint found in the workspace, which can be a dependency file,
\* and the written main file only when the detection found none.
C26_RunsDetectedElseMain ==
    \A c \in Calls :
        SuppliesInline(rc[c].options) /\ rc[c].options.entryPoint = None =>
            /\ FilesRunBy(c) \subseteq
                   {IF rc[c].detected.path # None THEN rc[c].detected.path
                    ELSE rc[c].mainFilePath}
            /\ FilesRunBy(c) # {} => rc[c].detected.tier # "not consulted"

\* the request {code, filename: util.py, dependencies: [main.py]} runs the
\* dependency main.py, found by the detection, not the written main file
C26_Witness ==
    \E c \in Calls :
        /\ rc[c].options = ReqDetect
        /\ rc[c].mainFilePath = PathJoin(rc[c].workspacePath, <<"util.py">>)
        /\ FilesRunBy(c) = {PathJoin(rc[c].workspacePath, <<"main.py">>)}

\* the signal handlers that the executeCommand calls of call c have
\* registered and not removed (one entry stands for the SIGINT and the
\* SIGTERM handler of one executeCommand)
ListenersOf(c) == {l \in listeners : l.call = c}

\* C27 as stated: at every moment the handlers registered on the host
\* process are those of the executeCommand calls that have started and not
\* yet settled: one per pending call, and none for a call that has settled,
\* also when the child could not be spawned, timed out or overflowed.
C27_ListenersMatchPendingCommands ==
    \A c \in Calls :
        Cardinality(ListenersOf(c)) = IF rc[c].pc = "exec" THEN 1 ELSE 0

\* the files of the request of call c inside its workspace, each with the
\* content that the request wrote to it last (the main file is written after
\* the dependencies, a later dependency after an earlier one of that name)
SuppliedFiles(c) ==
    LET options == rc[c].options
        ws == rc[c].workspacePath
        deps == options.dependencies
        DepPath(i) == PathJoin(ws, deps[i].filename)
        mainPath == PathJoin(ws, options.filename)
        depPaths == {DepPath(i) : i \in DOMAIN deps}
        LastDep(p) == CHOOSE i \in DOMAIN deps :
                          /\ DepPath(i) = p
                          /\ \A j \in DOMAIN deps : DepPath(j) = p => j <= i
    IN  {<<p, IF SuppliesInline(options) /\ p = mainPath THEN options.code
               ELSE deps[LastDep(p)].code>> :
            p \in {q \in depPaths \cup (IF SuppliesInline(options) THEN {mainPath} ELSE {}) :
                      Below(ws, q)}}

\* C28 as stated: from the moment runCode has written the request's files to
\* the moment the run command starts, every file that the request supplied
\* is still there with the content the request gave it: the handler's setup
\* steps overwrite or delete none, for every entry-file extension.
C28_SetupKeepsRequestFiles ==
    \A c \in Calls :
        (rc[c].pc \in {"autoSetup", "resolve", "setup"}
            \/ Executing(c, {"setup", "install"})
            \/ (Executing(c, {"run"}) /\ rc[c].child = "running"))
        => \A s \in SuppliedFiles(c) : s[1] \in DOMAIN files /\ files[s[1]] = s[2]

\* the files on disk that are in no workspace directory
OutsideWorkspaces ==
    {f \in DOMAIN files : \A n \in 1..MaxCalls : ~Below(WorkspacePath(n), f)}

\* C29 as stated: a runCode call leaves everything outside its workspace
\* directory unchanged: once the calls have settled, the files outside the
\* workspaces are those that were there before, with their contents, also
\* for a request that runs an existing filepath of a compiled language.
C29_NothingLeftOutsideWorkspace ==
    (\A c \in Calls : rc[c].pc \in {"idle", "done"}) =>
        /\ OutsideWorkspaces = DOMAIN ExternalFiles
        /\ \A f \in OutsideWorkspaces : files[f] = ExternalFiles[f]

----------------------------------------------------------------------------
\* The run_cursor tool: its handler builds the options of runCode from the
\* parameters of the tool call

\* process.cwd() of the server
Cwd == <<>>

\* the parameters of a run_cursor call (CursorRunSchema); "" and <<>> stand
\* for a parameter that is not given
Params(code, filename, language, path, dependencies, entryPoint) ==
    [code |-> code, filename |-> filename, language |-> language, path |-> path,
     dependencies |-> dependencies, entryPoint |-> entryPoint]

\* params.filename || `file.${params.language || 'txt'}`
GeneratedFilename(params) ==
    IF params.filename # None THEN params.filename
    ELSE <<"file." \o (IF params.language # NoText THEN params.language ELSE "txt")>>

\* the handler of run_cursor: filepath is params.path, or for code without
\* a path the file name (given or generated) joined to the working
\* directory; filename is handed over as it was given
run_cursor(params) ==
    LET filepath == IF params.path # None THEN params.path
                    ELSE IF params.code # NoText
                         THEN PathJoin(Cwd, GeneratedFilename(params))
                         ELSE None
    IN  Options(params.code, params.filename, filepath, params.dependencies,
                params.entryPoint)

\* the tool calls: code with a language and no filename (alone, and together
\* with a dependency), code with a filename, a TypeScript file with a
\* manifest, and the path of an existing directory
CursorParams ==
    { Params(PyHi, None, "py", None, <<>>, None),
      Params(PyHi, None, "py", None, <<Dep(PyMainFn, <<"util.py">>)>>, None),
      Params(PyHi, <<"a.py">>, "py", None, <<>>, None),
      Params(TsLog, <<"app.ts">>, "ts", None,
             <<Dep(PkgStartUnquoted, <<"package.json">>)>>, None),
      Params(NoText, None, NoText, ProjectDir, <<>>, None) }

NextCursor ==
    \/ \E c \in Calls, params \in CursorParams : Start(c, run_cursor(params))
    \/ \E c \in Calls : WriteDep(c)
    \/ \E c \in Calls : WriteMain(c)
    \/ \E c \in Calls : Resolve(c)
    \/ \E c \in Calls : SetupNodeProject(c)
    \/ \E c \in Calls : ChildExit(c)
    \/ \E c \in Calls : ExecTimeout(c)
    \/ \E c \in Calls : SpawnError(c)
    \/ \E c \in Calls : RmDone(c)
    \/ HostSignal

SpecCursor == Init /\ [][NextCursor]_vars

\* call c was made by run_cursor with code and no filename
CodeWithoutFilename(c) ==
    \E params \in CursorParams :
        /\ params.code # NoText /\ params.filename = None /\ params.path = None
        /\ rc[c].options = run_cursor(params)
        /\ rc[c].workspacePath # None

\* C30 as stated: a run_cursor call with code and no filename executes the
\* supplied code: the code is written to the generated file.<language>, and
\* that file, holding the code, is the one that is run.
C30_CodeWithoutFilenameIsRun ==
    \A c \in Calls :
        CodeWithoutFilename(c) /\ "run" \in KindsExecutedBy(c) =>
            /\ <<c, rc[c].fileToRun>> \in written
            /\ Basename(rc[c].fileToRun) = "file.py"
            /\ Executing(c, {"run"}) /\ rc[c].child = "running"
                   => rc[c].prog = rc[c].options.code

====
